---- MODULE Spec2Model ----
(***************************************************************************)
(* Model of the signal state machine of Analisi_con_dash_html.py:          *)
(* generate_buy_sell_signals scans a table row by row, carrying one        *)
(* running label last_signal, and emits a label column and two marker      *)
(* columns.  Rows are numbered 1..n here (row k is Python's index k-1).    *)
(***************************************************************************)
EXTENDS Integers, Sequences, FiniteSets, TLC

(* ----------------------------- bounds ---------------------------------- *)
\* longest table scanned with arbitrary condition callables
MaxLen == 4
\* longest table scanned with price-threshold condition callables
ScenarioLen == 5
\* longest table scanned with the callables of the three indicator pipelines
PipeLen == 3
\* longest price series a request fetches
MaxRows == 2

(* ----------------------------- values ---------------------------------- *)
\* Python's None, the initial value of last_signal
None == "null"
Buy == "Buy"
Sell == "Sell"

\* a float cell is <<x>>; np.nan is the empty tuple
NaN == <<>>
Float(x) == <<x>>
IsNaN(v) == v = NaN

\* float comparison: any comparison with np.nan is False
\* np.nan read as 0, as after a fillna(0)
Fill0(v) == IF IsNaN(v) THEN 0 ELSE v[1]
Lt_fill0(a, b) == Fill0(a) < Fill0(b)
Lt(a, b) == ~IsNaN(a) /\ ~IsNaN(b) /\ a[1] < b[1]
Gt(a, b) == ~IsNaN(a) /\ ~IsNaN(b) /\ a[1] > b[1]

\* closing prices of the tables scanned with threshold conditions
Prices == 8..12
\* closing prices of the tables scanned with arbitrary conditions
GenericPrices == {9, 12}
\* the strategy names the three callers pass
Strategies == {"MACD", "RSI", "Bollinger_Bands"}

\* f'{strategy}_Indicator', f'{strategy}_Buy', f'{strategy}_Sell'
IndicatorCol(s) == s \o "_Indicator"
BuyCol(s) == s \o "_Buy"
SellCol(s) == s \o "_Sell"

(* ------------------------------ state ---------------------------------- *)
VARIABLES
    dataframe,        \* column name -> sequence of cells
    condition_buy,    \* row -> what condition_buy(i, dataframe) returns
    condition_sell,   \* row -> what condition_sell(i, dataframe) returns
    strategy,         \* the strategy argument
    i,                \* number of rows the loop has processed
    last_signal,      \* the running label
    indicator_state,  \* label after each processed row
    buy,              \* buy marker of each processed row
    sell,             \* sell marker of each processed row
    result,           \* the returned value
    pc,               \* "loop" while scanning, "done" after return
    rpc,              \* where index() stands; "idle" outside a request
    hist,             \* the Close column ticker.history returned
    prices,           \* company.prices
    library,          \* what the indicator library computes from prices
    pending,          \* the pipeline steps set_technical_indicators still owes
    last,             \* last_macd, last_rsi, last_bb as far as assigned
    raised,           \* the text of the exception caught at line 360
    response,         \* the renderings returned so far, each by its arguments
    earlier           \* the outcomes of earlier set_technical_indicators calls

request == <<rpc, hist, prices, library, pending, last, raised, response,
             earlier>>

vars == <<dataframe, condition_buy, condition_sell, strategy, i, last_signal,
          indicator_state, buy, sell, result, pc, request>>

inputs == <<condition_buy, condition_sell, strategy>>

Close == dataframe["Close"]
\* len(dataframe)
n_short == Len(Close) - 1
n == Len(Close)

(* ------------------------- condition callables ------------------------- *)
\* a threshold pair of callables over the Close column: buy below 10,
\* sell above 11
ThresholdBuy(close) == [k \in 1..Len(close) |-> Lt(close[k], Float(10))]
ThresholdSell(close) == [k \in 1..Len(close) |-> Gt(close[k], Float(11))]

(* ------------------------ the three pipelines -------------------------- *)
\* get_rsi's defaults low_rsi and high_rsi, and BollingerBands' window_dev
low_rsi == 40
high_rsi == 70
window_dev == 2

Rows(df) == 1..Len(df["Close"])

\* lines 77-78: the callables get_macd passes
MacdBuy_conventional(df) ==
    [k \in Rows(df) |-> Gt(df["MACD"][k], df["MACD_Signal"][k])]
MacdBuy(df) == [k \in Rows(df) |-> Lt(df["MACD"][k], df["MACD_Signal"][k])]
MacdSell(df) == [k \in Rows(df) |-> Gt(df["MACD"][k], df["MACD_Signal"][k])]

\* lines 91-92: the callables get_rsi passes
RsiBuy(df) == [k \in Rows(df) |-> Lt(df["RSI"][k], Float(low_rsi))]
RsiSell(df) == [k \in Rows(df) |-> Gt(df["RSI"][k], Float(high_rsi))]

\* lines 107-108: the callables get_bollinger_bands passes
BollingerBuy(df) ==
    [k \in Rows(df) |-> Lt(df["Close"][k], df["Bollinger_Bands_Lower"][k])]
BollingerSell(df) ==
    [k \in Rows(df) |-> Gt(df["Close"][k], df["Bollinger_Bands_Upper"][k])]

\* line 72: macd_diff() is the MACD line minus its signal line
MacdDiff(macd, signal) ==
    [k \in 1..Len(macd) |->
        IF IsNaN(macd[k]) \/ IsNaN(signal[k]) THEN NaN
        ELSE Float(macd[k][1] - signal[k][1])]

\* lines 103-104: the bands are the moving average plus and minus window_dev
\* rolling deviations, both missing over the same rows
Hband(mavg, dev) ==
    [k \in 1..Len(mavg) |->
        IF IsNaN(mavg[k]) \/ IsNaN(dev[k]) THEN NaN
        ELSE Float(mavg[k][1] + window_dev * dev[k][1])]
Lband(mavg, dev) ==
    [k \in 1..Len(mavg) |->
        IF IsNaN(mavg[k]) \/ IsNaN(dev[k]) THEN NaN
        ELSE Float(mavg[k][1] - window_dev * dev[k][1])]

\* what the indicator library can put in a row: a MACD line and signal line
\* each missing or not, an RSI, a moving average with its rolling deviation
MacdValues == {NaN, Float(0), Float(1)}
RsiValues == {NaN, Float(30), Float(40), Float(50), Float(70), Float(80)}
BandValues == {<<NaN, NaN>>, <<Float(10), Float(0)>>, <<Float(10), Float(1)>>}

\* lines 71-73: the columns get_macd stores before its scan
MacdColumns(macd, signal) ==
    ("MACD" :> macd) @@ ("MACD_Histogram" :> MacdDiff(macd, signal))
    @@ ("MACD_Signal" :> signal)

\* line 88
RsiColumns(rsi) == ("RSI" :> rsi)

\* lines 102-104
BollingerColumns(mavg, dev) ==
    ("Bollinger_Bands_Middle" :> mavg)
    @@ ("Bollinger_Bands_Upper" :> Hband(mavg, dev))
    @@ ("Bollinger_Bands_Lower" :> Lband(mavg, dev))

(* ------------------------------- Init ---------------------------------- *)
\* line 41: last_signal = None
InitLastSignal_text == "None"
\* a label kept from the scan before
InitLastSignal_stale == last_signal
InitLastSignal == None

\* the locals of lines 41-44
InitLocals ==
    /\ i = 0
    /\ last_signal = InitLastSignal
    /\ indicator_state = <<>>
    /\ buy = <<>>
    /\ sell = <<>>
    /\ result = None
    /\ pc = "loop"

\* a scan called on its own, outside a request: line 29-34, a Company whose
\* prices and table are still None, and nothing fetched or rendered
NoRequest ==
    /\ rpc = "idle"
    /\ hist = None
    /\ prices = None
    /\ library = None
    /\ pending = {}
    /\ last = <<>>
    /\ raised = None
    /\ response = <<>>
    /\ earlier = <<>>

\* a call with arbitrary truth tables for the two callables; the Close column
\* holds prices (the price source drops rows without a price)
GenericCall ==
    \E len \in 0..MaxLen :
        /\ \E close \in [1..len -> {Float(p) : p \in GenericPrices}] :
               dataframe = ("Close" :> close)
        /\ condition_buy \in [1..len -> BOOLEAN]
        /\ condition_sell \in [1..len -> BOOLEAN]

\* a call with the threshold callables
ThresholdCall ==
    \E len \in 0..ScenarioLen :
        \E close \in [1..len -> {Float(p) : p \in Prices}] :
            /\ dataframe = ("Close" :> close)
            /\ condition_buy = ThresholdBuy(close)
            /\ condition_sell = ThresholdSell(close)

\* the call get_macd makes (lines 76-81)
MacdCall ==
    \E len \in 0..PipeLen :
        \E close \in [1..len -> {Float(p) : p \in GenericPrices}],
           macd \in [1..len -> MacdValues], signal \in [1..len -> MacdValues] :
            /\ dataframe = MacdColumns(macd, signal) @@ ("Close" :> close)
            /\ condition_buy = MacdBuy(dataframe)
            /\ condition_sell = MacdSell(dataframe)
            /\ strategy = "MACD"

\* the call get_rsi makes (lines 90-95)
RsiCall ==
    \E len \in 0..PipeLen :
        \E close \in [1..len -> {Float(p) : p \in GenericPrices}],
           rsi \in [1..len -> RsiValues] :
            /\ dataframe = RsiColumns(rsi) @@ ("Close" :> close)
            /\ condition_buy = RsiBuy(dataframe)
            /\ condition_sell = RsiSell(dataframe)
            /\ strategy = "RSI"

\* the call get_bollinger_bands makes (lines 106-111)
BollingerCall ==
    \E len \in 0..PipeLen :
        \E close \in [1..len -> {Float(p) : p \in Prices}],
           band \in [1..len -> BandValues] :
            /\ dataframe =
                   BollingerColumns([k \in 1..len |-> band[k][1]],
                                    [k \in 1..len |-> band[k][2]])
                   @@ ("Close" :> close)
            /\ condition_buy = BollingerBuy(dataframe)
            /\ condition_sell = BollingerSell(dataframe)
            /\ strategy = "Bollinger_Bands"

Init ==
    /\ \/ (GenericCall \/ ThresholdCall) /\ strategy \in Strategies
       \/ MacdCall
       \/ RsiCall
       \/ BollingerCall
    /\ InitLocals
    /\ NoRequest

(* ------------------------------ the loop ------------------------------- *)
\* line 47: condition_buy(i, dataframe) and last_signal != 'Buy'
BuyFires_always(cb, ls) == cb
BuyFires_fromNone(cb, ls) == cb /\ ls = None
BuyFires(cb, ls) == cb /\ ls # Buy

\* line 51: condition_sell(i, dataframe) and last_signal == 'Buy'
SellFires_notSell(cs, ls) == cs /\ ls # Sell
SellFires_always(cs, ls) == cs
SellFires(cs, ls) == cs /\ ls = Buy

\* lines 47, 51, 55: the if / elif / else chain
Branch_buyMasksSell(cb, cs, ls) ==
    IF cb THEN (IF ls # Buy THEN "buy" ELSE "else")
    ELSE IF SellFires(cs, ls) THEN "sell"
    ELSE "else"
Branch(cb, cs, ls) ==
    IF BuyFires(cb, ls) THEN "buy"
    ELSE IF SellFires(cs, ls) THEN "sell"
    ELSE "else"

\* the branch row i + 1 takes
Taken == Branch(condition_buy[i + 1], condition_sell[i + 1], last_signal)

\* lines 49-50: <<what buy gets, what sell gets>>
BuyRowMarkers_swapped(close) == <<NaN, close>>
BuyRowMarkers_both(close) == <<close, close>>
BuyRowMarkers(close) == <<close, NaN>>

\* lines 53-54
SellRowMarkers(close) == <<NaN, close>>

\* lines 56-57
ElseRowMarkers == <<NaN, NaN>>

\* line 52: last_signal = 'Sell'
SellSignal_none == None
SellSignal == Sell

\* lines 55-57 leave last_signal alone
ElseSignal_reset(ls) == None
ElseSignal(ls) == ls

\* lines 47-50 and 58
BuyBranch ==
    /\ pc = "loop"
    /\ i < n
    /\ Taken = "buy"
    /\ last_signal' = Buy
    /\ buy' = Append(buy, BuyRowMarkers(Close[i + 1])[1])
    /\ sell' = Append(sell, BuyRowMarkers(Close[i + 1])[2])
    /\ indicator_state' = Append(indicator_state, last_signal')
    /\ i' = i + 1
    /\ UNCHANGED <<dataframe, inputs, result, pc, request>>

\* lines 51-54 and 58
SellBranch ==
    /\ pc = "loop"
    /\ i < n
    /\ Taken = "sell"
    /\ last_signal' = SellSignal
    /\ buy' = Append(buy, SellRowMarkers(Close[i + 1])[1])
    /\ sell' = Append(sell, SellRowMarkers(Close[i + 1])[2])
    /\ indicator_state' = Append(indicator_state, last_signal')
    /\ i' = i + 1
    /\ UNCHANGED <<dataframe, inputs, result, pc, request>>

\* lines 55-58
ElseBranch ==
    /\ pc = "loop"
    /\ i < n
    /\ Taken = "else"
    /\ last_signal' = ElseSignal(last_signal)
    /\ buy' = Append(buy, ElseRowMarkers[1])
    /\ sell' = Append(sell, ElseRowMarkers[2])
    /\ indicator_state' = Append(indicator_state, last_signal')
    /\ i' = i + 1
    /\ UNCHANGED <<dataframe, inputs, result, pc, request>>

\* lines 60-63: the three columns are stored and last_signal is returned
Return ==
    /\ pc = "loop"
    /\ i = n
    /\ dataframe' = (IndicatorCol(strategy) :> indicator_state)
                    @@ (BuyCol(strategy) :> buy)
                    @@ (SellCol(strategy) :> sell)
                    @@ dataframe
    /\ result' = last_signal
    /\ pc' = "done"
    /\ UNCHANGED <<inputs, i, last_signal, indicator_state, buy, sell, request>>

\* lines 41-58 as one evaluation: the locals after rows 1..k
RECURSIVE Scan(_, _, _, _)
Scan(cb, cs, close, k) ==
    IF k = 0
    THEN [last_signal |-> InitLastSignal, indicator_state |-> <<>>,
          buy |-> <<>>, sell |-> <<>>]
    ELSE LET p == Scan(cb, cs, close, k - 1)
             br == Branch(cb[k], cs[k], p.last_signal)
             ls == CASE br = "buy" -> Buy
                     [] br = "sell" -> SellSignal
                     [] OTHER -> ElseSignal(p.last_signal)
             mk == CASE br = "buy" -> BuyRowMarkers(close[k])
                     [] br = "sell" -> SellRowMarkers(close[k])
                     [] OTHER -> ElseRowMarkers
         IN  [last_signal |-> ls,
              indicator_state |-> Append(p.indicator_state, ls),
              buy |-> Append(p.buy, mk[1]),
              sell |-> Append(p.sell, mk[2])]

Next == BuyBranch \/ SellBranch \/ ElseBranch \/ Return

Spec == Init /\ [][Next]_vars

(* ----------------------------- type check ------------------------------ *)
Labels == {None, Buy, Sell}

TypeOK ==
    /\ i \in 0..n
    /\ last_signal \in Labels
    /\ result \in Labels
    /\ pc \in {"loop", "done"}
    /\ Len(indicator_state) = i /\ Len(buy) = i /\ Len(sell) = i
    /\ \A k \in 1..i : indicator_state[k] \in Labels

(* ---------------------------- a request -------------------------------- *)
\* the price series the price source can return, the empty one included
RequestPrices == {0, 12}
HistValues ==
    UNION {[1..len -> {Float(p) : p \in RequestPrices}] : len \in 0..MaxRows}

\* what the indicator library computes for a series of len prices: per row a
\* MACD line with its signal line and an RSI, missing or not, and a moving
\* average with its deviation
LibMacd == {<<NaN, NaN>>, <<Float(0), Float(1)>>, <<Float(1), Float(0)>>}
LibRsi == {NaN, Float(30), Float(80)}
LibBand == {<<Float(10), Float(0)>>}
LibraryFor(len) ==
    {[macd |-> [k \in 1..len |-> m[k][1]],
      signal |-> [k \in 1..len |-> m[k][2]],
      rsi |-> r,
      mavg |-> [k \in 1..len |-> b[k][1]],
      dev |-> [k \in 1..len |-> b[k][2]]] :
        m \in [1..len -> LibMacd], r \in [1..len -> LibRsi],
        b \in [1..len -> LibBand]}

\* the three pipelines, each in two steps: it stores its indicator columns,
\* then scans and stores its signal columns
Pipelines == {"get_macd", "get_rsi", "get_bollinger_bands"}
AllSteps == Pipelines \X {"indicator", "signals"}

\* lines 118-120: the order set_technical_indicators runs them in
CodeOrder ==
    << <<"get_macd", "indicator">>, <<"get_macd", "signals">>,
       <<"get_rsi", "indicator">>, <<"get_rsi", "signals">>,
       <<"get_bollinger_bands", "indicator">>,
       <<"get_bollinger_bands", "signals">> >>
IsNextInCode(st) ==
    \E k \in 1..Len(CodeOrder) :
        /\ CodeOrder[k] = st
        /\ st \in pending
        /\ \A j \in 1..(k - 1) : CodeOrder[j] \notin pending

\* lines 80, 94, 110: the strategy name each pipeline passes
PipelineStrategy_copied(p) == "MACD"
PipelineStrategy(p) ==
    CASE p = "get_macd" -> "MACD"
      [] p = "get_rsi" -> "RSI"
      [] p = "get_bollinger_bands" -> "Bollinger_Bands"

\* lines 71-73, 88, 102-104: the indicator columns each pipeline stores
Indicators(p, lib) ==
    CASE p = "get_macd" -> MacdColumns(lib.macd, lib.signal)
      [] p = "get_rsi" -> RsiColumns(lib.rsi)
      [] p = "get_bollinger_bands" -> BollingerColumns(lib.mavg, lib.dev)

\* lines 77-78, 91-92, 107-108: the callables each pipeline passes
ConditionBuy(p, df) ==
    CASE p = "get_macd" -> MacdBuy(df)
      [] p = "get_rsi" -> RsiBuy(df)
      [] p = "get_bollinger_bands" -> BollingerBuy(df)
ConditionSell(p, df) ==
    CASE p = "get_macd" -> MacdSell(df)
      [] p = "get_rsi" -> RsiSell(df)
      [] p = "get_bollinger_bands" -> BollingerSell(df)

\* the locals of the scan pipeline p runs on table df
PipelineScan(p, df) ==
    Scan(ConditionBuy(p, df), ConditionSell(p, df), df["Close"],
         Len(df["Close"]))

\* lines 60-62 on table df
StoreSignals(strat, sc, df) ==
    (IndicatorCol(strat) :> sc.indicator_state)
    @@ (BuyCol(strat) :> sc.buy)
    @@ (SellCol(strat) :> sc.sell)
    @@ df

\* lines 82, 96, 112: last or 'None'
OrNone_raw(x) == x
OrNone(x) == IF x = None THEN "None" ELSE x

\* lines 121-125: the returned map
LastSignals(l) ==
    [MACD |-> l["get_macd"], RSI |-> l["get_rsi"],
     BOLL |-> l["get_bollinger_bands"]]

\* lines 116-117: a fresh table holding the Close column
FreshTable(pr) == ("Close" :> pr)

\* line 313: hist.empty
IsEmpty_never(h) == FALSE
IsEmpty(h) == h = <<>>

\* line 307: the default symbol
Symbol == "AAPL"

\* lines 314 and 361: the messages
NoDataMessage == "Nessun dato trovato per " \o Symbol
ErrorMessage(cause) == "Errore: " \o cause

\* what can go wrong inside the try block: the price source or the indicator
\* library raising
Causes == {"lookup failed", "bad input"}
\* prices.iloc[-1] on an empty series
IndexErrorText == "single positional indexer is out-of-bounds"

\* a quotient of two floats: dividing by 0.0 gives inf, or nan for 0.0 / 0.0,
\* and raises nothing
Quotient(a, b) ==
    IF b[1] = 0
    THEN [kind |-> IF a[1] = 0 THEN "nan" ELSE "inf", num |-> 0, den |-> 1]
    ELSE [kind |-> "finite", num |-> a[1], den |-> b[1]]

\* line 326: (last / first - 1) * 100
ChangePct(first, lastp) ==
    LET q == Quotient(lastp, first)
    IN  IF q.kind = "finite"
        THEN [kind |-> "finite", num |-> (q.num - q.den) * 100, den |-> q.den]
        ELSE q

Highest(pr) == CHOOSE v \in {pr[k] : k \in 1..Len(pr)} :
                   \A k \in 1..Len(pr) : pr[k][1] <= v[1]
Lowest(pr) == CHOOSE v \in {pr[k] : k \in 1..Len(pr)} :
                  \A k \in 1..Len(pr) : pr[k][1] >= v[1]

\* lines 323-327
Summary(pr) ==
    [last_price |-> pr[Len(pr)],
     high |-> Highest(pr),
     low |-> Lowest(pr),
     change_pct |-> ChangePct(pr[1], pr[Len(pr)]),
     n_points |-> Len(pr)]

\* lines 333-342: None for a missing cell, 0 in the histogram
JsonNull == <<"null", "null">>
Json(col) == [k \in 1..Len(col) |-> IF IsNaN(col[k]) THEN JsonNull ELSE col[k]]
JsonZero(col) == [k \in 1..Len(col) |-> IF IsNaN(col[k]) THEN Float(0) ELSE col[k]]
Payload(df) ==
    [close |-> Json(df["Close"]),
     price_buy |-> Json(df["MACD_Buy"]),
     price_sell |-> Json(df["MACD_Sell"]),
     macd |-> Json(df["MACD"]),
     macd_signal |-> Json(df["MACD_Signal"]),
     macd_hist |-> JsonZero(df["MACD_Histogram"]),
     rsi |-> Json(df["RSI"]),
     bb_mid |-> Json(df["Bollinger_Bands_Middle"]),
     bb_up |-> Json(df["Bollinger_Bands_Upper"]),
     bb_low |-> Json(df["Bollinger_Bands_Lower"])]

\* lines 345-358: what the template gets on success (the period and the clock
\* are left out)
FullResponse(signals, sm, df) ==
    [error |-> None, symbol |-> Symbol, last_signals |-> signals,
     summary |-> sm, data |-> Payload(df)]

\* lines 314 and 361: what the template gets on failure
ErrorResponse_partial(msg) ==
    [error |-> msg, symbol |-> Symbol, last_signals |-> last]
ErrorResponse(msg) == [error |-> msg, symbol |-> Symbol]

\* lines 307-310: a request arrives; no Company, no table, no scan yet
RequestInit ==
    /\ rpc = "fetch"
    /\ hist = None
    /\ prices = None
    /\ library = None
    /\ pending = {}
    /\ last = <<>>
    /\ raised = None
    /\ response = <<>>
    /\ earlier = <<>>
    /\ dataframe = <<>>
    /\ condition_buy = <<>>
    /\ condition_sell = <<>>
    /\ strategy = None
    /\ i = 0
    /\ last_signal = None
    /\ indicator_state = <<>>
    /\ buy = <<>>
    /\ sell = <<>>
    /\ result = None
    /\ pc = "idle"

scan == <<condition_buy, condition_sell, strategy, i, last_signal,
          indicator_state, buy, sell, result, pc>>

\* lines 311-314: the price source returns an empty series
FetchEmpty ==
    /\ rpc = "fetch"
    /\ \E h \in HistValues :
          /\ IsEmpty(h)
          /\ hist' = h
    /\ response' = Append(response, ErrorResponse(NoDataMessage))
    /\ rpc' = "done"
    /\ UNCHANGED <<dataframe, scan, prices, library, pending, last, raised,
                   earlier>>

\* lines 311-317: the price source returns prices
FetchData ==
    /\ rpc = "fetch"
    /\ \E h \in HistValues :
          /\ ~IsEmpty(h)
          /\ hist' = h
          /\ prices' = h
          /\ library' \in LibraryFor(Len(h))
    /\ rpc' = "start"
    /\ UNCHANGED <<dataframe, scan, pending, last, raised, response, earlier>>

\* lines 116-117
SetTable ==
    /\ rpc = "start"
    /\ dataframe' = FreshTable(prices)
    /\ pending' = AllSteps
    /\ last' = <<>>
    /\ rpc' = "indicators"
    /\ UNCHANGED <<scan, hist, prices, library, raised, response, earlier>>

\* lines 70-73, 87-88, 101-104: pipeline p stores its indicator columns
IndicatorStep(p) ==
    /\ rpc = "indicators"
    /\ <<p, "indicator">> \in pending
    /\ dataframe' = Indicators(p, library) @@ dataframe
    /\ pending' = pending \ {<<p, "indicator">>}
    /\ UNCHANGED <<scan, rpc, hist, prices, library, last, raised, response,
                   earlier>>

\* lines 76-82, 90-96, 106-112: pipeline p scans the table, stores its signal
\* columns and keeps the text of the last label
SignalStep(p) ==
    /\ rpc = "indicators"
    /\ <<p, "signals">> \in pending
    /\ <<p, "indicator">> \notin pending
    /\ LET sc == PipelineScan(p, dataframe)
       IN  /\ condition_buy' = ConditionBuy(p, dataframe)
           /\ condition_sell' = ConditionSell(p, dataframe)
           /\ strategy' = PipelineStrategy(p)
           /\ i' = Len(dataframe["Close"])
           /\ last_signal' = sc.last_signal
           /\ indicator_state' = sc.indicator_state
           /\ buy' = sc.buy
           /\ sell' = sc.sell
           /\ result' = sc.last_signal
           /\ pc' = "done"
           /\ dataframe' = StoreSignals(PipelineStrategy(p), sc, dataframe)
           /\ last' = (p :> OrNone(sc.last_signal)) @@ last
    /\ pending' = pending \ {<<p, "signals">>}
    /\ UNCHANGED <<rpc, hist, prices, library, raised, response, earlier>>

\* get_macd, get_rsi or get_bollinger_bands as a whole, run on table df
RunPipeline(p, df, lib) ==
    LET withIndicators == Indicators(p, lib) @@ df
    IN  StoreSignals(PipelineStrategy(p), PipelineScan(p, withIndicators),
                     withIndicators)
\* what it returns
PipelineResult(p, df, lib) ==
    OrNone(PipelineScan(p, Indicators(p, lib) @@ df).last_signal)

\* lines 116-120: the table set_technical_indicators builds, MACD first, then
\* RSI, then Bollinger
CodeTable(pr, lib) ==
    RunPipeline("get_bollinger_bands",
        RunPipeline("get_rsi",
            RunPipeline("get_macd", FreshTable(pr), lib), lib), lib)

\* lines 118-125: the map it returns
CodeSignals(pr, lib) ==
    LET t1 == RunPipeline("get_macd", FreshTable(pr), lib)
        t2 == RunPipeline("get_rsi", t1, lib)
    IN  [MACD |-> PipelineResult("get_macd", FreshTable(pr), lib),
         RSI |-> PipelineResult("get_rsi", t1, lib),
         BOLL |-> PipelineResult("get_bollinger_bands", t2, lib)]

\* the steps in the order of lines 118-120
CodeIndicatorStep ==
    \E p \in Pipelines : IsNextInCode(<<p, "indicator">>) /\ IndicatorStep(p)
CodeSignalStep ==
    \E p \in Pipelines : IsNextInCode(<<p, "signals">>) /\ SignalStep(p)

\* the steps of the three pipelines in any order
AnyIndicatorStep == \E p \in Pipelines : IndicatorStep(p)
AnySignalStep == \E p \in Pipelines : SignalStep(p)

\* lines 121-125 and 320-358: the map is returned, the summary and the payload
\* are computed and the template is rendered; on an empty series
\* prices.iloc[-1] raises and line 361 renders the error
Respond ==
    /\ rpc = "indicators"
    /\ pending = {}
    /\ IF prices = <<>>
       THEN /\ raised' = IndexErrorText
            /\ response' =
                   Append(response, ErrorResponse(ErrorMessage(IndexErrorText)))
       ELSE /\ raised' = None
            /\ response' =
                   Append(response, FullResponse(LastSignals(last),
                                                 Summary(prices), dataframe))
    /\ rpc' = "done"
    /\ UNCHANGED <<dataframe, scan, hist, prices, library, pending, last,
                   earlier>>

\* lines 360-361: something raised inside the try block
Raise ==
    /\ rpc \in {"fetch", "start", "indicators"}
    /\ \E cause \in Causes :
          /\ raised' = cause
          /\ response' = Append(response, ErrorResponse(ErrorMessage(cause)))
    /\ rpc' = "done"
    /\ UNCHANGED <<dataframe, scan, hist, prices, library, pending, last,
                   earlier>>

\* set_technical_indicators is called once more on the same company: the
\* outcome of the first call is kept aside and lines 116-117 run again
Again ==
    /\ rpc = "indicators"
    /\ pending = {}
    /\ earlier = <<>>
    /\ earlier' =
           Append(earlier, [table |-> dataframe, signals |-> LastSignals(last)])
    /\ dataframe' = FreshTable(prices)
    /\ pending' = AllSteps
    /\ last' = <<>>
    /\ UNCHANGED <<scan, rpc, hist, prices, library, raised, response>>

NextRequest ==
    \/ FetchEmpty
    \/ FetchData
    \/ SetTable
    \/ CodeIndicatorStep
    \/ CodeSignalStep
    \/ Respond
    \/ Raise

\* one request to index()
SpecRequest == RequestInit /\ [][NextRequest]_vars

NextAnyOrder ==
    \/ FetchData
    \/ SetTable
    \/ AnyIndicatorStep
    \/ AnySignalStep
    \/ Respond

\* a request whose three pipelines run in any order and interleaving
SpecAnyOrder == RequestInit /\ [][NextAnyOrder]_vars

NextTwice ==
    \/ FetchData
    \/ SetTable
    \/ CodeIndicatorStep
    \/ CodeSignalStep
    \/ Again

\* set_technical_indicators called twice on the same prices
SpecTwice == RequestInit /\ [][NextTwice]_vars

\* the row-by-row scan and the one-evaluation scan give the same locals
ScanAgrees ==
    (rpc = "idle" /\ pc = "done") =>
        Scan(condition_buy, condition_sell, Close, Len(Close)) =
            [last_signal |-> last_signal, indicator_state |-> indicator_state,
             buy |-> buy, sell |-> sell]

(* ------------------------- reading the outputs ------------------------- *)
\* the label in force before row k is processed
Prior(k) == IF k = 1 THEN None ELSE indicator_state[k - 1]
HasBuy(k) == ~IsNaN(buy[k])
HasSell(k) == ~IsNaN(sell[k])
\* the rows processed so far
Done == 1..i

(* ------------------------------- C1 ------------------------------------ *)
\* C1: at every processed row k where condition_buy holds and the label
\* before the row is not Buy, the label after the row is Buy, the buy marker
\* is the row's Close, the sell marker is missing and state[k] is Buy.
C1_BuyTransition ==
    \A k \in Done :
        (condition_buy[k] /\ Prior(k) # Buy) =>
            /\ indicator_state[k] = Buy
            /\ (k = i => last_signal = Buy)
            /\ buy[k] = Close[k]
            /\ IsNaN(sell[k])

\* a finished scan that bought from None and bought again from Sell
C1_Witness ==
    /\ pc = "done"
    /\ \E j, k \in Done :
          /\ condition_buy[j] /\ Prior(j) = None /\ indicator_state[j] = Buy
          /\ condition_buy[k] /\ Prior(k) = Sell /\ indicator_state[k] = Buy

(* ------------------------------- C2 ------------------------------------ *)
\* C2: a sell marker or a change of label to Sell happens at row k only when
\* the label before the row is Buy, the marker then being the row's Close;
\* the only label changes are None->Buy, Sell->Buy and Buy->Sell.
C2_SellOnlyFromBuy ==
    \A k \in Done :
        /\ (HasSell(k) \/ (indicator_state[k] = Sell /\ Prior(k) # Sell)) =>
               /\ Prior(k) = Buy
               /\ indicator_state[k] = Sell
               /\ sell[k] = Close[k]
        /\ Prior(k) # indicator_state[k] =>
               <<Prior(k), indicator_state[k]>> \in
                   {<<None, Buy>>, <<Sell, Buy>>, <<Buy, Sell>>}

\* a finished scan where condition_sell held on a row with the label None, on
\* a row with the label Sell, and on a row that sold
C2_Witness ==
    /\ pc = "done"
    /\ \E j, k, m \in Done :
          /\ condition_sell[j] /\ Prior(j) = None
          /\ condition_sell[k] /\ Prior(k) = Sell
          /\ HasSell(m) /\ Prior(m) = Buy

(* ------------------------------- C3 ------------------------------------ *)
\* C3: a row whose prior label is Buy carries no buy marker, even when
\* condition_buy holds; between two rows with a buy marker there is a row with
\* a sell marker, between two rows with a sell marker a row with a buy marker,
\* and every sell marker is preceded by a buy marker (the markers alternate,
\* starting with a buy marker).
C3_Hysteresis ==
    /\ \A k \in Done : Prior(k) = Buy => ~HasBuy(k)
    /\ \A j, k \in Done :
          (j < k /\ HasBuy(j) /\ HasBuy(k)) =>
              \E m \in (j + 1)..(k - 1) : HasSell(m)
    /\ \A j, k \in Done :
          (j < k /\ HasSell(j) /\ HasSell(k)) =>
              \E m \in (j + 1)..(k - 1) : HasBuy(m)
    /\ \A k \in Done : HasSell(k) => \E j \in 1..(k - 1) : HasBuy(j)

\* a finished scan where condition_buy re-fired while in position and was
\* ignored, and that carries two buy markers
C3_Witness ==
    /\ pc = "done"
    /\ \E k \in Done : condition_buy[k] /\ Prior(k) = Buy
    /\ \E j, k \in Done : j < k /\ HasBuy(j) /\ HasBuy(k)

(* ------------------------------- C4 ------------------------------------ *)
\* row t changes the label to Buy
EntersBuy(t) == Prior(t) # Buy /\ indicator_state[t] = Buy
\* row t changes the label to Sell
EntersSell(t) == Prior(t) = Buy /\ indicator_state[t] = Sell

\* C4 as stated: for every row k labelled Buy, every earlier row j that lies
\* at or after the None->Buy transition, with no Sell transition from j to k,
\* is labelled Buy.
C4_Original ==
    \A k \in Done :
        indicator_state[k] = Buy =>
            \A j \in 1..(k - 1) :
                (/\ \E t \in 1..j : Prior(t) = None /\ indicator_state[t] = Buy
                 /\ \A m \in j..k : ~EntersSell(m))
                    => indicator_state[j] = Buy

\* C4 (amended): every row k labelled Buy has a most recent row t <= k that
\* changed the label to Buy (from None or from Sell), every row from t to k is
\* labelled Buy, and after any row that changes the label to Buy the label
\* stays Buy until a row changes it to Sell or the table ends.
C4_Persistence ==
    /\ \A k \in Done :
          indicator_state[k] = Buy =>
              \E t \in 1..k :
                  /\ EntersBuy(t)
                  /\ \A m \in (t + 1)..k : ~EntersBuy(m)
                  /\ \A j \in t..k : indicator_state[j] = Buy
    /\ \A t, j \in Done :
          (t <= j /\ EntersBuy(t) /\ \A m \in (t + 1)..j : ~EntersSell(m)) =>
              indicator_state[j] = Buy

\* a finished scan that re-entered Buy from Sell and then kept the label over
\* a row without transition
C4_Witness ==
    /\ pc = "done"
    /\ \E t, k \in Done :
          /\ t < k
          /\ Prior(t) = Sell /\ EntersBuy(t)
          /\ indicator_state[k] = Buy /\ ~HasBuy(k)
          /\ \A j \in t..k : indicator_state[j] = Buy

(* ------------------------------- C5 ------------------------------------ *)
\* C5: no row carries both a buy and a sell marker, and a row on which
\* neither branch fires carries no marker and keeps the label of the row
\* before it.
C5_MutualExclusion ==
    \A k \in Done :
        /\ ~(HasBuy(k) /\ HasSell(k))
        /\ (/\ ~(condition_buy[k] /\ Prior(k) # Buy)
            /\ ~(condition_sell[k] /\ Prior(k) = Buy)) =>
               /\ IsNaN(buy[k]) /\ IsNaN(sell[k])
               /\ indicator_state[k] = Prior(k)
               /\ (k = i => last_signal = Prior(k))

\* a finished scan with a buy row, a sell row and a row without transition
\* after the first buy
C5_Witness ==
    /\ pc = "done"
    /\ \E j, k, m \in Done :
          /\ HasBuy(j)
          /\ HasSell(k)
          /\ j < m /\ ~HasBuy(m) /\ ~HasSell(m)

(* ------------------------------- C6 ------------------------------------ *)
\* C6: when condition_buy holds on no row of the table, whatever
\* condition_sell does, every label is None, the running label and the
\* returned value are None, and every buy marker and sell marker is missing.
C6_NeverBuy ==
    (\A k \in 1..n : ~condition_buy[k]) =>
        /\ \A k \in Done :
              indicator_state[k] = None /\ IsNaN(buy[k]) /\ IsNaN(sell[k])
        /\ last_signal = None
        /\ result = None
        /\ pc = "done" =>
              /\ dataframe[IndicatorCol(strategy)] = [k \in 1..n |-> None]
              /\ dataframe[BuyCol(strategy)] = [k \in 1..n |-> NaN]
              /\ dataframe[SellCol(strategy)] = [k \in 1..n |-> NaN]

\* a finished scan of at least two rows where condition_buy never held and
\* condition_sell held on some row
C6_Witness ==
    /\ pc = "done"
    /\ n >= 2
    /\ \A k \in 1..n : ~condition_buy[k]
    /\ \E k \in 1..n : condition_sell[k]

(* ------------------------------- C7 ------------------------------------ *)
\* C7: on a row where both conditions hold, a prior label other than Buy
\* gives the label Buy with only the buy marker set, a prior label Buy gives
\* the label Sell with only the sell marker set, and the row never carries
\* both markers; a sell marker appears only on rows where the buy branch did
\* not fire.
C7_TieBreak ==
    \A k \in Done :
        /\ (condition_buy[k] /\ condition_sell[k]) =>
              /\ Prior(k) # Buy =>
                    /\ indicator_state[k] = Buy
                    /\ buy[k] = Close[k] /\ IsNaN(sell[k])
              /\ Prior(k) = Buy =>
                    /\ indicator_state[k] = Sell
                    /\ sell[k] = Close[k] /\ IsNaN(buy[k])
              /\ ~(HasBuy(k) /\ HasSell(k))
        /\ HasSell(k) => ~(condition_buy[k] /\ Prior(k) # Buy)

\* a finished scan where both conditions held on a row entered with None, on
\* a row entered with Buy and on a row entered with Sell
C7_Witness ==
    /\ pc = "done"
    /\ \E j, k, m \in Done :
          /\ condition_buy[j] /\ condition_sell[j] /\ Prior(j) = None
          /\ condition_buy[k] /\ condition_sell[k] /\ Prior(k) = Buy
          /\ condition_buy[m] /\ condition_sell[m] /\ Prior(m) = Sell

(* ------------------------------- C8 ------------------------------------ *)
\* the price series of the example scenario
ExamplePrices == <<10, 9, 11, 12, 8>>

\* the call of the example: those prices, buy when the price is below 10,
\* sell when it is above 11
IsExample ==
    /\ Close = [k \in 1..5 |-> Float(ExamplePrices[k])]
    /\ condition_buy = [k \in 1..5 |-> ExamplePrices[k] < 10]
    /\ condition_sell = [k \in 1..5 |-> ExamplePrices[k] > 11]

\* C8: a row entered with the label Sell on which condition_buy holds gets the
\* label Buy and a buy marker equal to its Close; and the example call ends
\* with the labels None, Buy, Buy, Sell, Buy, buy markers 9 and 8 on rows 2
\* and 5, the sell marker 12 on row 4, no other marker, and returns Buy.
C8_ReEntry ==
    /\ \A k \in Done :
          (Prior(k) = Sell /\ condition_buy[k]) =>
              /\ indicator_state[k] = Buy
              /\ HasBuy(k) /\ buy[k] = Close[k]
              /\ IsNaN(sell[k])
    /\ (IsExample /\ pc = "done") =>
          /\ indicator_state = <<None, Buy, Buy, Sell, Buy>>
          /\ buy = <<NaN, Float(9), NaN, NaN, Float(8)>>
          /\ sell = <<NaN, NaN, NaN, Float(12), NaN>>
          /\ result = Buy
          /\ dataframe[IndicatorCol(strategy)] = indicator_state
          /\ dataframe[BuyCol(strategy)] = buy
          /\ dataframe[SellCol(strategy)] = sell

\* the example call, finished
C8_Witness == IsExample /\ pc = "done" /\ i = 5

(* ------------------------------- C9 ------------------------------------ *)
\* C9: on an empty table the scan goes straight to its return, the returned
\* value is None and the three stored columns are empty.
C9_EmptyTable ==
    n = 0 =>
        /\ pc = "loop" => ENABLED Return
        /\ last_signal = None /\ result = None
        /\ indicator_state = <<>> /\ buy = <<>> /\ sell = <<>>
        /\ pc = "done" =>
              /\ dataframe[IndicatorCol(strategy)] = <<>>
              /\ dataframe[BuyCol(strategy)] = <<>>
              /\ dataframe[SellCol(strategy)] = <<>>

\* a finished scan of an empty table
C9_Witness == n = 0 /\ pc = "done"

(* ------------------------------- C10 ----------------------------------- *)
\* C10: the label of a row is None exactly when no row up to it carries a buy
\* marker; a label other than None is never followed by None; and the first
\* label other than None is Buy.
C10_NoneMeansNeverOpened ==
    /\ \A k \in Done :
          /\ indicator_state[k] = None <=> \A j \in 1..k : ~HasBuy(j)
          /\ Prior(k) # None => indicator_state[k] # None
          /\ (Prior(k) = None /\ indicator_state[k] # None) =>
                indicator_state[k] = Buy
    /\ last_signal = None <=> \A j \in Done : ~HasBuy(j)

\* a finished scan that stayed None over a row where condition_sell held,
\* then bought, sold and went on after the sale
C10_Witness ==
    /\ pc = "done"
    /\ \E j, k, m \in Done :
          /\ indicator_state[j] = None /\ condition_sell[j]
          /\ HasBuy(k)
          /\ HasSell(m)
          /\ m < i

(* ------------------------------- C11 ----------------------------------- *)
\* C11: after the scan the label column and the two marker columns each have
\* one entry per row of the table, entry k belonging to row k (a marker that
\* is set is the Close of its own row), and on a table with rows the returned
\* value is the label of the last row.
C11_Aligned ==
    /\ \A k \in Done :
          /\ HasBuy(k) => buy[k] = Close[k]
          /\ HasSell(k) => sell[k] = Close[k]
    /\ pc = "done" =>
          /\ Len(dataframe[IndicatorCol(strategy)]) = Len(Close)
          /\ Len(dataframe[BuyCol(strategy)]) = Len(Close)
          /\ Len(dataframe[SellCol(strategy)]) = Len(Close)
          /\ dataframe[IndicatorCol(strategy)] = indicator_state
          /\ dataframe[BuyCol(strategy)] = buy
          /\ dataframe[SellCol(strategy)] = sell
          /\ Len(Close) > 0 =>
                result = dataframe[IndicatorCol(strategy)][Len(Close)]

\* a finished scan of a table of at least three rows whose last row changed
\* the label
C11_Witness ==
    /\ pc = "done"
    /\ Len(Close) >= 3
    /\ Len(indicator_state) = Len(Close)
    /\ indicator_state[Len(Close)] # indicator_state[Len(Close) - 1]

(* ------------------------------- C20 ----------------------------------- *)
\* the number of markers set in a marker sequence
Count(markers) == Cardinality({k \in 1..Len(markers) : ~IsNaN(markers[k])})

\* C20: after every prefix of rows the number of buy markers minus the number
\* of sell markers is 0 or 1, and the running label is Buy exactly when the
\* difference is 1, Sell exactly when the counts are equal and positive, and
\* None exactly when both counts are 0.
C20_Counts ==
    LET b == Count(buy)
        s == Count(sell)
    IN  /\ b - s \in {0, 1}
        /\ last_signal = Buy <=> b - s = 1
        /\ last_signal = Sell <=> (b = s /\ b > 0)
        /\ last_signal = None <=> (b = 0 /\ s = 0)

\* a scan that has set two buy markers and one sell marker and is in position
C20_Witness ==
    /\ Count(buy) = 2
    /\ Count(sell) = 1
    /\ last_signal = Buy

(* ------------------------------- C18 ----------------------------------- *)
\* the scan is the one get_macd started
IsMacdCall == strategy = "MACD" /\ "MACD" \in DOMAIN dataframe
IsRsiCall == strategy = "RSI" /\ "RSI" \in DOMAIN dataframe
IsBollingerCall ==
    strategy = "Bollinger_Bands" /\ "Bollinger_Bands_Lower" \in DOMAIN dataframe

\* both MACD cells of row k are present and compare as stated
MacdBelow(k) ==
    /\ dataframe["MACD"][k] # NaN /\ dataframe["MACD_Signal"][k] # NaN
    /\ dataframe["MACD"][k][1] < dataframe["MACD_Signal"][k][1]
MacdAbove(k) ==
    /\ dataframe["MACD"][k] # NaN /\ dataframe["MACD_Signal"][k] # NaN
    /\ dataframe["MACD"][k][1] > dataframe["MACD_Signal"][k][1]
MacdEqual(k) ==
    /\ dataframe["MACD"][k] # NaN /\ dataframe["MACD_Signal"][k] # NaN
    /\ dataframe["MACD"][k][1] = dataframe["MACD_Signal"][k][1]

\* C18: in the MACD pipeline the buy condition of a row is MACD strictly below
\* its signal line and the sell condition is MACD strictly above it; a row
\* where the two are equal changes nothing; and the first row where MACD is
\* strictly below the signal line is the row where the label becomes Buy.
C18_MacdPolarity ==
    IsMacdCall =>
        /\ \A k \in 1..n :
              /\ condition_buy[k] <=> MacdBelow(k)
              /\ condition_sell[k] <=> MacdAbove(k)
        /\ \A k \in Done :
              /\ MacdEqual(k) =>
                    /\ indicator_state[k] = Prior(k)
                    /\ IsNaN(buy[k]) /\ IsNaN(sell[k])
              /\ (MacdBelow(k) /\ \A j \in 1..(k - 1) : ~MacdBelow(j)) =>
                    /\ indicator_state[k] = Buy
                    /\ buy[k] = Close[k]
                    /\ \A j \in 1..(k - 1) : indicator_state[j] = None

\* a finished MACD scan with a row where MACD is above the signal line while
\* the label is still None, a later first row where it is below, and a row
\* where the two are equal
C18_Witness ==
    /\ IsMacdCall
    /\ pc = "done"
    /\ \E j, k, m \in Done :
          /\ j < k
          /\ MacdAbove(j)
          /\ MacdBelow(k) /\ \A h \in 1..(k - 1) : ~MacdBelow(h)
          /\ MacdEqual(m)

(* ------------------------------- C19 ----------------------------------- *)
\* row k lacks an indicator value the pipeline's conditions read
MissingAt(k) ==
    \/ IsMacdCall /\ (IsNaN(dataframe["MACD"][k])
                      \/ IsNaN(dataframe["MACD_Signal"][k]))
    \/ IsRsiCall /\ IsNaN(dataframe["RSI"][k])
    \/ IsBollingerCall /\ (IsNaN(dataframe["Bollinger_Bands_Lower"][k])
                           \/ IsNaN(dataframe["Bollinger_Bands_Upper"][k]))

\* C19: in each of the three pipelines, on a row where an indicator value the
\* conditions read is missing both conditions are false, the label stays what
\* it was and no marker is set; over a leading span of such rows the label
\* stays None.
C19_MissingNoTransition ==
    /\ \A k \in 1..n :
          MissingAt(k) => ~condition_buy[k] /\ ~condition_sell[k]
    /\ \A k \in Done :
          /\ MissingAt(k) =>
                /\ indicator_state[k] = Prior(k)
                /\ IsNaN(buy[k]) /\ IsNaN(sell[k])
          /\ (\A j \in 1..k : MissingAt(j)) => indicator_state[k] = None

\* a finished pipeline scan that starts with a missing row, takes a position
\* and then meets another missing row
C19_Witness ==
    /\ pc = "done"
    /\ \E j, k \in Done :
          /\ MissingAt(1)
          /\ j < k
          /\ indicator_state[j] = Buy
          /\ MissingAt(k)

(* ------------------------------- C12 ----------------------------------- *)
\* the label of the last row of a label column, None for an empty one
LastLabel(col) == IF col = <<>> THEN None ELSE col[Len(col)]
\* the text that stands for a label
TextOf(label) == IF label = None THEN "None" ELSE label

\* the request has ended with the full result
Succeeded == rpc = "done" /\ Len(response) = 1 /\ response[1].error = None

\* C12: the map set_technical_indicators returns has exactly the keys MACD,
\* RSI and BOLL; each value is one of the texts "None", "Buy", "Sell" and is
\* the text of the last label of that strategy's label column, "None" when
\* that label is the None sentinel, never the sentinel itself.
C12_LastSignalMap ==
    /\ \A p \in DOMAIN last : last[p] \in {"None", "Buy", "Sell"}
    /\ Succeeded =>
          LET m == response[1].last_signals
          IN  /\ DOMAIN m = {"MACD", "RSI", "BOLL"}
              /\ \A key \in DOMAIN m : m[key] \in {"None", "Buy", "Sell"}
              /\ m.MACD = TextOf(LastLabel(dataframe["MACD_Indicator"]))
              /\ m.RSI = TextOf(LastLabel(dataframe["RSI_Indicator"]))
              /\ m.BOLL =
                     TextOf(LastLabel(dataframe["Bollinger_Bands_Indicator"]))

\* a request that succeeded with MACD never in position, RSI in position and
\* Bollinger out again
C12_Witness ==
    /\ Succeeded
    /\ response[1].last_signals =
           [MACD |-> "None", RSI |-> "Buy", BOLL |-> "Sell"]
    /\ LastLabel(dataframe["MACD_Indicator"]) = None

(* ------------------------------- C13 ----------------------------------- *)
\* the columns pipeline p adds to a table that holds Close only
Written(p) ==
    DOMAIN RunPipeline(p, FreshTable(prices), library) \ {"Close"}

\* C13: the three pipelines write disjoint sets of columns; the scan of a
\* pipeline gives the same result whatever the other pipelines have already
\* stored; and whatever the order and interleaving of their steps, once all
\* have run the table and the last-signal map are those of the order MACD,
\* RSI, Bollinger.
C13_OrderIndependent ==
    rpc \in {"indicators", "done"} =>
        /\ pending = AllSteps =>
              \A p, q \in Pipelines : p # q => Written(p) \cap Written(q) = {}
        /\ \A p \in Pipelines :
              (<<p, "indicator">> \notin pending /\ <<p, "signals">> \in pending)
                  => PipelineScan(p, dataframe) =
                         PipelineScan(p, Indicators(p, library)
                                         @@ FreshTable(prices))
        /\ (pending = {} /\ rpc = "indicators") =>
              /\ dataframe = CodeTable(prices, library)
              /\ LastSignals(last) = CodeSignals(prices, library)
        /\ Succeeded =>
              /\ response[1].last_signals = CodeSignals(prices, library)
              /\ response[1].data = Payload(CodeTable(prices, library))

\* a request that succeeded after running the MACD scan last, with three
\* different last signals
C13_Witness ==
    /\ Succeeded
    /\ strategy = "MACD"
    /\ response[1].last_signals =
           [MACD |-> "Buy", RSI |-> "None", BOLL |-> "Sell"]

(* ------------------------------- C14 ----------------------------------- *)
\* C14: a second set_technical_indicators on the same prices starts from a
\* table that holds Close only and no last signal, and ends with the same
\* table and the same last-signal map as the first.
C14_Idempotent ==
    Len(earlier) = 1 =>
        /\ pending = AllSteps =>
              DOMAIN dataframe = {"Close"} /\ last = <<>>
        /\ pending = {} =>
              /\ dataframe = earlier[1].table
              /\ LastSignals(last) = earlier[1].signals

\* a second run that has finished, the first having ended with Bollinger in
\* position and MACD out
C14_Witness ==
    /\ Len(earlier) = 1
    /\ pending = {}
    /\ earlier[1].signals.BOLL = "Buy"
    /\ earlier[1].signals.MACD = "Sell"

(* ------------------------------- C15 ----------------------------------- *)
\* C15: nothing is returned before the request ends; it ends with exactly one
\* rendering, which is either the full result (the last-signal map, every
\* payload column with one entry per price, the five summary values) with no
\* failure caught, or an error carrying a message and no result; a failure
\* caught always gives the error, with the text "Errore: " followed by the
\* cause.
C15_NoPartialResult ==
    /\ rpc # "done" => response = <<>> /\ raised = None
    /\ rpc = "done" =>
          /\ Len(response) = 1
          /\ \/ /\ response[1].error = None
                /\ raised = None
                /\ DOMAIN response[1] =
                       {"error", "symbol", "last_signals", "summary", "data"}
                /\ DOMAIN response[1].last_signals = {"MACD", "RSI", "BOLL"}
                /\ DOMAIN response[1].data =
                       {"close", "price_buy", "price_sell", "macd",
                        "macd_signal", "macd_hist", "rsi", "bb_mid", "bb_up",
                        "bb_low"}
                /\ \A c \in DOMAIN response[1].data :
                       Len(response[1].data[c]) = Len(prices)
                /\ DOMAIN response[1].summary =
                       {"last_price", "high", "low", "change_pct", "n_points"}
                /\ response[1].summary.n_points = Len(prices)
             \/ /\ response[1].error # None
                /\ DOMAIN response[1] = {"error", "symbol"}
                /\ raised # None => response[1].error = "Errore: " \o raised
                /\ raised = None =>
                       response[1].error = "Nessun dato trovato per AAPL"

\* a request that failed after two pipelines had stored their columns
C15_Witness ==
    /\ rpc = "done"
    /\ raised # None
    /\ DOMAIN last = {"get_macd", "get_rsi"}
    /\ response[1].error = "Errore: bad input"

(* ------------------------------- C16 ----------------------------------- *)
\* C16 as stated: a request whose first price is 0 ends in the error state.
C16_Original ==
    (rpc = "done" /\ raised = None /\ hist # <<>> /\ hist[1] = Float(0)) =>
        response[1].error # None

(* ------------------------------- C17 ----------------------------------- *)
\* C17: once the price source has returned an empty series the request is
\* over, with the no-data message and no result, and no Company, table,
\* indicator, scan or summary was made.
C17_EmptySeries ==
    (rpc # "fetch" /\ raised = None /\ hist = <<>>) =>
        /\ rpc = "done"
        /\ response = <<[error |-> "Nessun dato trovato per AAPL",
                         symbol |-> "AAPL"]>>
        /\ prices = None
        /\ library = None
        /\ DOMAIN dataframe = {}
        /\ pending = {} /\ last = <<>>
        /\ pc = "idle" /\ indicator_state = <<>>

\* a request ended by an empty series
C17_Witness == rpc = "done" /\ raised = None /\ hist = <<>>

====
